---- MODULE Spec2Model ----
(***************************************************************************)
(* Model of screenshot.py: a single sequential run that parses three       *)
(* positional arguments, opens a headless Chrome session, navigates,       *)
(* waits for the body, captures either one element or the full page, and   *)
(* always quits the session.  Every call into Selenium or the OS is one    *)
(* step whose outcome (return value or raised exception) is chosen         *)
(* nondeterministically; the control flow between the calls is the         *)
(* script's.                                                               *)
(***************************************************************************)
EXTENDS Integers, Sequences, FiniteSets

VARIABLES argv, URL, OUTPUT, SELECTOR, pc, driver, window, file,
          total_width, total_height, success, exc, calls, out, stages,
          status, uncaught, writes

vars == <<argv, URL, OUTPUT, SELECTOR, pc, driver, window, file,
          total_width, total_height, success, exc, calls, out, stages,
          status, uncaught, writes>>

(* ---------------------------------------------------------------------- *)
(* Bounds and input sets                                                   *)
(* ---------------------------------------------------------------------- *)
MaxLen == 5

Alphabet == {"a", ".", "p", "n", "g", "P", "N", "G"}

RECURSIVE StringsUpTo(_)
StringsUpTo(n) ==
    IF n = 0 THEN {<<>>}
    ELSE LET S == StringsUpTo(n - 1)
         IN  S \cup {Append(s, c) : s \in {t \in S : Len(t) = n - 1}, c \in Alphabet}

AllOutputs == StringsUpTo(MaxLen)

SampleOutputs == { <<"a">>,
                   <<"a", ".", "p", "n", "g">>,
                   <<"a", ".", "P", "N", "G">>,
                   <<"a", ".", "p", "n", "g", ".", "t", "x", "t">> }

Urls == {"http://u"}

Selectors == {"", "#x"}

PageWidths == {1440, 2000}

PageHeights == {900, 5000}

ArgvOver(outs, sels) ==
    {<<"screenshot.py">>}
      \cup {<<"screenshot.py", u>> : u \in Urls}
      \cup {<<"screenshot.py", u, o>> : u \in Urls, o \in outs}
      \cup {<<"screenshot.py", u, o, s>> : u \in Urls, o \in outs, s \in sels}

(* ---------------------------------------------------------------------- *)
(* Program constants                                                       *)
(* ---------------------------------------------------------------------- *)
DefaultUrl == "https://nidl3r.github.io/PCC-KDS/"

DefaultOutput == <<"s", "c", "r", "e", "e", "n", "s", "h", "o", "t", ".", "p", "n", "g">>

DotPng == <<".", "p", "n", "g">>

InitialWindow == <<1440, 900>>

(* ---------------------------------------------------------------------- *)
(* Pure functions: str.lower, str.endswith, the .png normalisation         *)
(* ---------------------------------------------------------------------- *)
LowerChar(c) ==
    CASE c = "P" -> "p"
      [] c = "N" -> "n"
      [] c = "G" -> "g"
      [] c = "A" -> "a"
      [] OTHER   -> c

Lower(s) == [i \in 1..Len(s) |-> LowerChar(s[i])]

EndsWith(s, suf) ==
    /\ Len(s) >= Len(suf)
    /\ SubSeq(s, Len(s) - Len(suf) + 1, Len(s)) = suf

HasPngSuffixNoLower(s) == EndsWith(s, DotPng)

HasPngSuffix(s) == EndsWith(Lower(s), DotPng)

EnsurePngExt(s) == IF ~HasPngSuffix(s) THEN s \o DotPng ELSE s

(* os.path.getsize(output) raises OSError exactly when the path does not    *)
(* exist; the output path is touched by this run alone.                     *)
GetsizeAlwaysRaises(f) == TRUE

GetsizeRaises(f) == f = "absent"

Count(seq, x) == Cardinality({i \in 1..Len(seq) : seq[i] = x})

Has(seq, x) == \E i \in 1..Len(seq) : seq[i] = x

(* ---------------------------------------------------------------------- *)
(* Initial states                                                          *)
(* ---------------------------------------------------------------------- *)
InitWith(outs, sels, files) ==
    /\ argv \in ArgvOver(outs, sels)
    /\ URL = ""
    /\ OUTPUT = <<>>
    /\ SELECTOR = ""
    /\ pc = "module"
    /\ driver = "none"
    /\ window = InitialWindow
    /\ file \in files
    /\ total_width = 0
    /\ total_height = 0
    /\ success = "unset"
    /\ exc = "none"
    /\ calls = <<>>
    /\ out = <<>>
    /\ stages = <<"Start">>
    /\ status = 0
    /\ uncaught = FALSE
    /\ writes = <<>>

Init == InitWith(SampleOutputs, Selectors, {"absent", "stale"})

InitArgs == InitWith(AllOutputs, {}, {"absent"})

(* ---------------------------------------------------------------------- *)
(* Module level: argument defaults and the .png extension                  *)
(* ---------------------------------------------------------------------- *)
ParseArgs ==
    /\ pc = "module"
    /\ URL' = IF Len(argv) > 1 THEN argv[2] ELSE DefaultUrl
    /\ OUTPUT' = IF Len(argv) > 2 THEN argv[3] ELSE DefaultOutput
    /\ SELECTOR' = IF Len(argv) > 3 THEN argv[4] ELSE ""
    /\ pc' = "ensure_png"
    /\ UNCHANGED <<writes, argv, driver, window, file, total_width, total_height,
                   success, exc, calls, out, stages, status, uncaught>>

EnsurePng ==
    /\ pc = "ensure_png"
    /\ OUTPUT' = EnsurePngExt(OUTPUT)
    /\ pc' = "main"
    /\ UNCHANGED <<writes, argv, URL, SELECTOR, driver, window, file, total_width,
                   total_height, success, exc, calls, out, stages, status,
                   uncaught>>

(* ---------------------------------------------------------------------- *)
(* take_screenshot                                                         *)
(* ---------------------------------------------------------------------- *)
PrintHeader ==
    /\ pc = "main"
    /\ out' = out \o << <<"Target", URL>>, <<"Output", OUTPUT>> >>
                  \o (IF SELECTOR # "" THEN << <<"Selector", SELECTOR>> >> ELSE <<>>)
    /\ pc' = "chrome"
    /\ UNCHANGED <<writes, argv, URL, OUTPUT, SELECTOR, driver, window, file,
                   total_width, total_height, success, exc, calls, stages,
                   status, uncaught>>

(* webdriver.Chrome(...) sits before the try: a failure to create the      *)
(* session leaves the function with no session and no teardown.            *)
CreateDriver ==
    /\ pc = "chrome"
    /\ calls' = Append(calls, "Chrome")
    /\ \/ /\ driver' = "open"
          /\ stages' = Append(stages, "SessionOpen")
          /\ pc' = "get"
          /\ exc' = exc
       \/ /\ exc' = "Exception"
          /\ pc' = "exit"
          /\ UNCHANGED <<driver, stages>>
    /\ UNCHANGED <<writes, argv, URL, OUTPUT, SELECTOR, window, file, total_width,
                   total_height, success, out, status, uncaught>>

(* Where control goes when the navigation or the body wait raises. *)
RecoverNavTarget == "branch"

NavFailTarget == "finally"

Navigate ==
    /\ pc = "get"
    /\ calls' = Append(calls, "get")
    /\ \/ /\ stages' = Append(stages, "Navigated")
          /\ pc' = "wait_body"
          /\ exc' = exc
       \/ /\ exc' = "Exception"
          /\ pc' = NavFailTarget
          /\ stages' = stages
    /\ UNCHANGED <<writes, argv, URL, OUTPUT, SELECTOR, driver, window, file,
                   total_width, total_height, success, out, status, uncaught>>

WaitBody ==
    /\ pc = "wait_body"
    /\ calls' = Append(calls, "wait_body")
    /\ \/ /\ stages' = Append(stages, "BodyReady")
          /\ pc' = "branch"
          /\ exc' = exc
       \/ /\ exc' = "Exception"
          /\ pc' = NavFailTarget
          /\ stages' = stages
    /\ UNCHANGED <<writes, argv, URL, OUTPUT, SELECTOR, driver, window, file,
                   total_width, total_height, success, out, status, uncaught>>

(* time.sleep(2.5); if selector: *)
Branch ==
    /\ pc = "branch"
    /\ pc' = IF SELECTOR # "" THEN "wait_selector" ELSE "fp_width"
    /\ UNCHANGED <<writes, argv, URL, OUTPUT, SELECTOR, driver, window, file,
                   total_width, total_height, success, exc, calls, out,
                   stages, status, uncaught>>

(* ── Element-targeted screenshot: the inner try ── *)
WaitSelector ==
    /\ pc = "wait_selector"
    /\ calls' = Append(calls, "wait_selector")
    /\ \/ /\ stages' = Append(stages, "SelectorResolved")
          /\ pc' = "scroll"
       \/ /\ pc' = "handler"
          /\ stages' = stages
    /\ UNCHANGED <<writes, argv, URL, OUTPUT, SELECTOR, driver, window, file,
                   total_width, total_height, success, exc, out, status,
                   uncaught>>

ScrollErrorPropagates ==
    /\ pc = "scroll"
    /\ calls' = Append(calls, "scrollIntoView")
    /\ \/ /\ pc' = "elem_shot"
          /\ exc' = exc
       \/ /\ pc' = "finally"
          /\ exc' = "Exception"
    /\ UNCHANGED <<writes, argv, URL, OUTPUT, SELECTOR, driver, window, file,
                   total_width, total_height, success, out, stages, status,
                   uncaught>>

Scroll ==
    /\ pc = "scroll"
    /\ calls' = Append(calls, "scrollIntoView")
    /\ \/ pc' = "elem_shot"
       \/ pc' = "handler"
    /\ UNCHANGED <<writes, argv, URL, OUTPUT, SELECTOR, driver, window, file,
                   total_width, total_height, success, exc, out, stages,
                   status, uncaught>>

(* element.screenshot(output): raises when the element cannot be rendered, *)
(* returns True after writing the file, returns False when opening or      *)
(* writing the file failed (the file is then untouched or truncated).      *)
(* The script ignores the returned value.                                  *)
ElementScreenshot ==
    /\ pc = "elem_shot"
    /\ calls' = Append(calls, "element.screenshot")
    /\ \/ /\ pc' = "handler"
          /\ UNCHANGED <<file, stages, writes>>
       \/ /\ file' = "element"
          /\ writes' = Append(writes, "element")
          /\ stages' = Append(stages, "Captured")
          /\ pc' = "elem_size"
       \/ /\ file' = "partial"
          /\ writes' = Append(writes, "element")
          /\ stages' = stages
          /\ pc' = "elem_size"
       \/ /\ UNCHANGED <<file, stages, writes>>
          /\ pc' = "elem_size"
    /\ UNCHANGED <<argv, URL, OUTPUT, SELECTOR, driver, window, total_width,
                   total_height, success, exc, out, status, uncaught>>

(* size_kb = os.path.getsize(output) / 1024; print("Saved element ...") *)
ElemSavedThenFullPage ==
    /\ pc = "elem_size"
    /\ calls' = Append(calls, "getsize")
    /\ IF GetsizeRaises(file)
         THEN /\ pc' = "handler"
              /\ out' = out
         ELSE /\ out' = Append(out, <<"SavedElement", OUTPUT>>)
              /\ pc' = "fp_width"
    /\ UNCHANGED <<writes, argv, URL, OUTPUT, SELECTOR, driver, window, file,
                   total_width, total_height, success, exc, stages, status,
                   uncaught>>

ElemSaved ==
    /\ pc = "elem_size"
    /\ calls' = Append(calls, "getsize")
    /\ IF GetsizeRaises(file)
         THEN /\ pc' = "handler"
              /\ out' = out
         ELSE /\ out' = Append(out, <<"SavedElement", OUTPUT>>)
              /\ pc' = "finally"
    /\ UNCHANGED <<writes, argv, URL, OUTPUT, SELECTOR, driver, window, file,
                   total_width, total_height, success, exc, stages, status,
                   uncaught>>

(* except Exception as e: print the warning, then _full_page(driver, output) *)
HandlerAborts ==
    /\ pc = "handler"
    /\ out' = Append(out, <<"Warning", SELECTOR>>)
    /\ exc' = "Exception"
    /\ pc' = "finally"
    /\ UNCHANGED <<writes, argv, URL, OUTPUT, SELECTOR, driver, window, file,
                   total_width, total_height, success, calls, stages, status,
                   uncaught>>

HandlerRetriesSelector ==
    /\ pc = "handler"
    /\ out' = Append(out, <<"Warning", SELECTOR>>)
    /\ stages' = Append(stages, "SelectorFallback")
    /\ pc' = IF Has(stages, "SelectorFallback") THEN "fp_width" ELSE "wait_selector"
    /\ UNCHANGED <<writes, argv, URL, OUTPUT, SELECTOR, driver, window, file,
                   total_width, total_height, success, exc, calls, status,
                   uncaught>>

Handler ==
    /\ pc = "handler"
    /\ out' = Append(out, <<"Warning", SELECTOR>>)
    /\ stages' = Append(stages, "SelectorFallback")
    /\ pc' = "fp_width"
    /\ UNCHANGED <<writes, argv, URL, OUTPUT, SELECTOR, driver, window, file,
                   total_width, total_height, success, exc, calls, status,
                   uncaught>>

(* ---------------------------------------------------------------------- *)
(* _full_page                                                              *)
(* ---------------------------------------------------------------------- *)
MeasureWidth ==
    /\ pc = "fp_width"
    /\ calls' = Append(calls, "measure_width")
    /\ \/ /\ total_width' \in PageWidths
          /\ pc' = "fp_height"
          /\ exc' = exc
       \/ /\ exc' = "Exception"
          /\ pc' = "finally"
          /\ total_width' = total_width
    /\ UNCHANGED <<writes, argv, URL, OUTPUT, SELECTOR, driver, window, file,
                   total_height, success, out, stages, status, uncaught>>

MeasureHeight ==
    /\ pc = "fp_height"
    /\ calls' = Append(calls, "measure_height")
    /\ \/ /\ total_height' \in PageHeights
          /\ out' = Append(out, <<"Page", "">>)
          /\ pc' = "fp_resize"
          /\ exc' = exc
       \/ /\ exc' = "Exception"
          /\ pc' = "finally"
          /\ UNCHANGED <<total_height, out>>
    /\ UNCHANGED <<writes, argv, URL, OUTPUT, SELECTOR, driver, window, file,
                   total_width, success, stages, status, uncaught>>

(* driver.set_window_size(total_width, total_height) *)
ResizeSwapped ==
    /\ pc = "fp_resize"
    /\ calls' = Append(calls, "set_window_size")
    /\ \/ /\ window' = <<total_height, total_width>>
          /\ pc' = "fp_shot"
          /\ exc' = exc
       \/ /\ exc' = "Exception"
          /\ pc' = "finally"
          /\ window' = window
    /\ UNCHANGED <<writes, argv, URL, OUTPUT, SELECTOR, driver, file, total_width,
                   total_height, success, out, stages, status, uncaught>>

Resize ==
    /\ pc = "fp_resize"
    /\ calls' = Append(calls, "set_window_size")
    /\ \/ /\ window' = <<total_width, total_height>>
          /\ pc' = "fp_shot"
          /\ exc' = exc
       \/ /\ exc' = "Exception"
          /\ pc' = "finally"
          /\ window' = window
    /\ UNCHANGED <<writes, argv, URL, OUTPUT, SELECTOR, driver, file, total_width,
                   total_height, success, out, stages, status, uncaught>>

(* success = driver.get_screenshot_as_file(output): True after writing,    *)
(* False when opening or writing the file failed, or it raises.            *)
Capture ==
    /\ pc = "fp_shot"
    /\ calls' = Append(calls, "get_screenshot_as_file")
    /\ \/ /\ file' = "page"
          /\ writes' = Append(writes, "page")
          /\ success' = "True"
          /\ stages' = Append(stages, "Captured")
          /\ pc' = "fp_check"
          /\ exc' = exc
       \/ /\ file' = "partial"
          /\ writes' = Append(writes, "page")
          /\ success' = "False"
          /\ stages' = stages
          /\ pc' = "fp_check"
          /\ exc' = exc
       \/ /\ success' = "False"
          /\ pc' = "fp_check"
          /\ exc' = exc
          /\ UNCHANGED <<file, stages, writes>>
       \/ /\ exc' = "Exception"
          /\ pc' = "finally"
          /\ UNCHANGED <<file, success, stages, writes>>
    /\ UNCHANGED <<argv, URL, OUTPUT, SELECTOR, driver, window, total_width,
                   total_height, out, status, uncaught>>

(* if success: getsize, print Saved; else: print failed, sys.exit(1) *)
ReportWithoutExit ==
    /\ pc = "fp_check"
    /\ IF success = "True"
         THEN /\ calls' = Append(calls, "getsize")
              /\ IF GetsizeRaises(file)
                   THEN exc' = "Exception" /\ out' = out
                   ELSE exc' = exc /\ out' = Append(out, <<"Saved", OUTPUT>>)
         ELSE /\ out' = Append(out, <<"Failed", "">>)
              /\ calls' = calls
              /\ exc' = exc
    /\ pc' = "finally"
    /\ UNCHANGED <<writes, argv, URL, OUTPUT, SELECTOR, driver, window, file,
                   total_width, total_height, success, stages, status,
                   uncaught>>

Report ==
    /\ pc = "fp_check"
    /\ IF success = "True"
         THEN /\ calls' = Append(calls, "getsize")
              /\ IF GetsizeRaises(file)
                   THEN exc' = "Exception" /\ out' = out
                   ELSE exc' = exc /\ out' = Append(out, <<"Saved", OUTPUT>>)
         ELSE /\ out' = Append(out, <<"Failed", "">>)
              /\ calls' = Append(calls, "sys.exit")
              /\ exc' = "SystemExit"
    /\ pc' = "finally"
    /\ UNCHANGED <<writes, argv, URL, OUTPUT, SELECTOR, driver, window, file,
                   total_width, total_height, success, stages, status,
                   uncaught>>

(* finally: driver.quit() *)
QuitOnlyOnSuccess ==
    /\ pc = "finally"
    /\ IF exc = "none"
         THEN /\ calls' = Append(calls, "quit")
              /\ driver' = "closed"
              /\ stages' = Append(stages, "SessionClosed")
         ELSE UNCHANGED <<calls, driver, stages>>
    /\ pc' = "exit"
    /\ UNCHANGED <<writes, argv, URL, OUTPUT, SELECTOR, window, file, total_width,
                   total_height, success, exc, out, status, uncaught>>

Quit ==
    /\ pc = "finally"
    /\ calls' = Append(calls, "quit")
    /\ driver' = "closed"
    /\ stages' = Append(stages, "SessionClosed")
    /\ pc' = "exit"
    /\ UNCHANGED <<writes, argv, URL, OUTPUT, SELECTOR, window, file, total_width,
                   total_height, success, exc, out, status, uncaught>>

(* Interpreter exit: 0 on normal return, 1 for SystemExit(1), 1 with a     *)
(* traceback for an exception nothing caught.                              *)
Terminate ==
    /\ pc = "exit"
    /\ status' = IF exc = "none" THEN 0 ELSE 1
    /\ uncaught' = (exc = "Exception")
    /\ pc' = "done"
    /\ UNCHANGED <<writes, argv, URL, OUTPUT, SELECTOR, driver, window, file,
                   total_width, total_height, success, exc, calls, out,
                   stages>>

(* ---------------------------------------------------------------------- *)
(* Specifications                                                          *)
(* ---------------------------------------------------------------------- *)
NextArgs == ParseArgs \/ EnsurePng

Next ==
    \/ ParseArgs \/ EnsurePng \/ PrintHeader \/ CreateDriver \/ Navigate
    \/ WaitBody \/ Branch \/ WaitSelector \/ Scroll \/ ElementScreenshot
    \/ ElemSaved \/ Handler \/ MeasureWidth \/ MeasureHeight \/ Resize
    \/ Capture \/ Report \/ Quit \/ Terminate

Spec == Init /\ [][Next]_vars

SpecArgs == InitArgs /\ [][NextArgs]_vars

(* ---------------------------------------------------------------------- *)
(* Vocabulary of the properties                                            *)
(* ---------------------------------------------------------------------- *)
Printed(tag) == \E i \in 1..Len(out) : out[i][1] = tag

Warned == \E i \in 1..Len(out) : out[i][1] = "Warning" /\ out[i][2] = SELECTOR

IndexOf(seq, x) == CHOOSE i \in 1..Len(seq) : seq[i] = x

Before(seq, x, y) == Has(seq, x) /\ Has(seq, y) /\ IndexOf(seq, x) < IndexOf(seq, y)

FullPageCalls == {"measure_width", "measure_height", "set_window_size",
                  "get_screenshot_as_file"}

FullPageEntered == pc = "fp_width" \/ Has(calls, "measure_width")

Ended == pc \in {"finally", "exit", "done"}

SelectorTimedOut == Has(calls, "wait_selector") /\ ~Has(stages, "SelectorResolved")

NavigationFailed == Has(calls, "get") /\ ~Has(stages, "Navigated")

BodyTimedOut == Has(calls, "wait_body") /\ ~Has(stages, "BodyReady")

(* The input the module-level code read for the output filename. *)
OutputArg == IF Len(argv) > 2 THEN argv[3] ELSE DefaultOutput

(* ".png" in any letter case, written without str.lower. *)
EndsPngAnyCase(s) ==
    /\ Len(s) >= 4
    /\ s[Len(s) - 3] = "."
    /\ s[Len(s) - 2] \in {"p", "P"}
    /\ s[Len(s) - 1] \in {"n", "N"}
    /\ s[Len(s)] \in {"g", "G"}

(* ---------------------------------------------------------------------- *)
(* C1: in every run whose browser session was created, driver.quit is      *)
(* called exactly once by the time the run ends, on every exit path, and   *)
(* never more than once.                                                   *)
(* ---------------------------------------------------------------------- *)
C1_SessionClosedExactlyOnce ==
    /\ Count(calls, "quit") <= 1
    /\ Has(calls, "quit") => Has(stages, "SessionOpen")
    /\ (pc \in {"exit", "done"} /\ Has(stages, "SessionOpen"))
          => (Count(calls, "quit") = 1 /\ driver = "closed")

C1_Witness ==
    /\ pc = "done"
    /\ exc = "SystemExit"
    /\ Has(stages, "SelectorFallback")
    /\ Count(calls, "quit") = 1

(* ---------------------------------------------------------------------- *)
(* C2: when a non-empty selector matches nothing within the selector wait, *)
(* the run does not abort: the warning naming the selector is printed, the *)
(* full-page path then runs on the same session, and if the full-page      *)
(* capture returns success the process exits with status 0.                *)
(* ---------------------------------------------------------------------- *)
C2_SelectorTimeoutFallsBack ==
    SelectorTimedOut =>
      /\ SELECTOR # ""
      /\ pc = "handler" => exc = "none"
      /\ pc # "handler" =>
            /\ Warned
            /\ Has(stages, "SelectorFallback")
            /\ FullPageEntered
            /\ Count(calls, "Chrome") = 1
      /\ pc \in {"fp_width", "fp_height", "fp_resize", "fp_shot", "fp_check"}
            => driver = "open"
      /\ (pc = "done" /\ success = "True") => (status = 0 /\ ~uncaught)

C2_Witness ==
    /\ SelectorTimedOut
    /\ Warned
    /\ pc = "done"
    /\ success = "True"
    /\ status = 0
    /\ file = "page"

C4_CaptureFailureExitsOne ==
    /\ (success = "False" /\ Ended) =>
          /\ Printed("Failed")
          /\ Has(calls, "sys.exit")
          /\ exc = "SystemExit"
    /\ (success = "False" /\ pc = "done") => (status = 1 /\ ~uncaught)

C4_Witness ==
    /\ pc = "done"
    /\ success = "False"
    /\ SelectorTimedOut
    /\ status = 1

(* ---------------------------------------------------------------------- *)
(* C5: the normalised output name is the input with one ".png" appended    *)
(* when the input does not end in ".png" in any letter case, is the input  *)
(* unchanged when it does, always ends in ".png" case-insensitively, and   *)
(* normalising it again changes nothing.                                   *)
(* ---------------------------------------------------------------------- *)
C5_PngNormalisation ==
    pc = "main" =>
      /\ ~EndsPngAnyCase(OutputArg) => OUTPUT = OutputArg \o DotPng
      /\ EndsPngAnyCase(OutputArg) => OUTPUT = OutputArg
      /\ EndsPngAnyCase(OUTPUT)
      /\ EnsurePngExt(OUTPUT) = OUTPUT

C5_Witness ==
    /\ pc = "main"
    /\ OutputArg = <<"a", ".", "P", "N", "G">>
    /\ OUTPUT = OutputArg

(* ---------------------------------------------------------------------- *)
(* C6: a failed navigation or a body-wait timeout is not recovered: the    *)
(* exception leaves take_screenshot, the run ends with an uncaught         *)
(* exception, and the selector wait, the element steps and the full-page   *)
(* path are never executed in that run.                                    *)
(* ---------------------------------------------------------------------- *)
C6_NavigationFailurePropagates ==
    (NavigationFailed \/ BodyTimedOut) =>
      /\ Ended
      /\ exc = "Exception"
      /\ NavigationFailed => ~Has(calls, "wait_body")
      /\ \A c \in FullPageCalls \cup {"wait_selector", "scrollIntoView",
                                     "element.screenshot", "getsize"} :
            ~Has(calls, c)
      /\ writes = <<>>
      /\ pc = "done" => (uncaught /\ status = 1)

C6_Witness ==
    /\ pc = "done"
    /\ BodyTimedOut
    /\ uncaught
    /\ SELECTOR # ""

(* ---------------------------------------------------------------------- *)
(* C7: whenever the full-page capture is taken, the window has been        *)
(* resized to exactly the measured width and height, and the measurements  *)
(* and the resize precede the capture call.                                *)
(* ---------------------------------------------------------------------- *)
C7_ResizedToMeasuredBeforeCapture ==
    (pc = "fp_shot" \/ Has(calls, "get_screenshot_as_file")) =>
      /\ total_width \in PageWidths
      /\ total_height \in PageHeights
      /\ window = <<total_width, total_height>>
      /\ Before(calls, "measure_width", "set_window_size")
      /\ Before(calls, "measure_height", "set_window_size")
      /\ Has(calls, "get_screenshot_as_file")
            => Before(calls, "set_window_size", "get_screenshot_as_file")

C7_Witness ==
    /\ Has(calls, "get_screenshot_as_file")
    /\ total_width = 2000
    /\ total_height = 5000
    /\ window = <<2000, 5000>>
    /\ file = "page"

(* ---------------------------------------------------------------------- *)
(* C8: the stages of a run follow Start, SessionOpen, Navigated,           *)
(* BodyReady, SelectorResolved or SelectorFallback, Captured,              *)
(* SessionClosed: none is entered twice, none before its predecessor,      *)
(* none after a later one, no call site runs twice, and SessionClosed is   *)
(* the last stage of every run that reached SessionOpen.                   *)
(* ---------------------------------------------------------------------- *)
Rank(st) ==
    CASE st = "Start"            -> 0
      [] st = "SessionOpen"      -> 1
      [] st = "Navigated"        -> 2
      [] st = "BodyReady"        -> 3
      [] st = "SelectorResolved" -> 4
      [] st = "SelectorFallback" -> 4
      [] st = "Captured"         -> 5
      [] st = "SessionClosed"    -> 6

SingleCallSites == {"Chrome", "get", "wait_body", "wait_selector",
                    "scrollIntoView", "element.screenshot", "measure_width",
                    "measure_height", "set_window_size",
                    "get_screenshot_as_file", "sys.exit", "quit"}

C9_WrittenAtMostOnce ==
    /\ Len(writes) <= 1
    /\ ~(Has(writes, "element") /\ Has(writes, "page"))
    /\ Has(writes, "element") => ~Has(calls, "get_screenshot_as_file")

C9_Witness ==
    /\ pc = "done"
    /\ Has(calls, "element.screenshot")
    /\ Has(calls, "get_screenshot_as_file")
    /\ writes = <<"page">>

(* ---------------------------------------------------------------------- *)
(* C10: once the element is found, an error in a later element step        *)
(* (scroll, element capture, size read) is handled like selector-not-      *)
(* found: the fallback warning is printed, the full-page path runs on the  *)
(* same session, and the exit status is 0 exactly when the full-page       *)
(* capture returned success.                                               *)
(* ---------------------------------------------------------------------- *)
ElementPathLeft ==
    /\ Has(stages, "SelectorResolved")
    /\ pc \notin {"scroll", "elem_shot", "elem_size"}
    /\ ~Printed("SavedElement")

====
